---- MODULE Spec2Model ----
(***************************************************************************)
(* State-machine model of the telemetry monitor in                         *)
(* src/IngestionMetricsHologram.tsx: the anomaly reporter (effect at lines *)
(* 328-377), the outbound delivery queue and its drain loop (lines         *)
(* 379-427), the snapshot history written by the poller (lines 42-74,      *)
(* 120-133, 230-246), the live anomaly feed (lines 429-462) and the stats   *)
(* engine with its percentile bounds (lines 266-326, 900-929).             *)
(*                                                                         *)
(* The component runs on one event loop: every action below is one         *)
(* callback (a render with its effects, a timer callback, a promise        *)
(* completion, a DOM event) executed to completion.                        *)
(*                                                                         *)
(* The specifications share the variables:                                 *)
(*   Spec         reporter + delivery queue; the stats engine's output     *)
(*                (the set of anomalous indices) is an input of the        *)
(*                render action.                                           *)
(*   SpecTeardown Spec with the unmount of the component.                  *)
(*   SpecCorrupt  Spec with a stored queue that JSON.parse rejects.        *)
(*   SpecQuiet    Spec with an environment that from some point on stays   *)
(*                visible and accepts every request, under fair            *)
(*                scheduling of timers and request completions.            *)
(*   SpecHistory  poller + live feed over the snapshot history.            *)
(*   SpecStats    the stats engine (lines 278-326) over windows of         *)
(*                snapshots, with stored or edited percentile bounds.      *)
(*   SpecBands    the percentile bounds edited from their defaults.        *)
(***************************************************************************)
EXTENDS Integers, Sequences, FiniteSets, Bags, TLC

(***************************************************************************)
(* Bounds of the model.                                                    *)
(***************************************************************************)
\* Cap of the persisted outbound queue. The source keeps the newest 200
\* entries (slice(-200), line 370); the model keeps the newest QueueCap.
QueueCap == 2
\* Cap of the snapshot history. The source keeps the newest 500 entries
\* (lines 130, 237, 453); the model keeps the newest HistoryCap.
HistoryCap == 3
\* Indices the stats engine may flag are 0 .. MaxIndex.
MaxIndex == 1
\* Number of flush chains (pending drain timers plus drain requests in
\* flight) up to which a further online event is considered.
MaxChains == 2

\* Cap of the rate ring buffer. The source keeps the newest 60 ratios
\* (lines 59, 70); the model keeps the newest RingCap.
RingCap == 2
\* Polled counters are 0 .. MaxCounter.
MaxCounter == 1
\* Entries of one live-feed message: 1 .. MaxFeedLen.
MaxFeedLen == 2

\* Clock values: enough successful polls to overflow the history.
MaxTime == HistoryCap + 1

\* Direct delivery payloads built during a run: enough to overflow the queue.
MaxPayloads == QueueCap + 1

(***************************************************************************)
(* Program constants.                                                      *)
(***************************************************************************)
BaseDelay == 5000
MaxDelay == 90000
CorruptMaxDelay == 60000
\* Samples of Math.random() * 400 (line 410), a value in [0, 400). With
\* multiples of 125 every delay below the cap is a whole number of ms, so
\* (d * 9) \div 5 is exactly d * 1.8.
JitterSamples == {0, 375}

VARIABLES
    stats,            \* useMemo result (line 278): [ok, anomalyIdx]; ok = FALSE is null
    lastPushedRef,    \* line 328
    pushInFlightRef,  \* line 329
    pushes,           \* direct deliveries outstanding: debounce timer armed or POST in flight
    queue,            \* localStorage 'anomalyOutboundQueue' (JSON array of payloads)
    corrupt,          \* the stored queue is a string JSON.parse rejects (queue is then <<>>)
    retryDelayRef,    \* line 379
    timers,           \* number of pending setTimeout(flush, ...) timers (line 419)
    timerLive,        \* whether the timer held by the variable `timer` (line 382) is pending
    drains,           \* bag of drain POSTs in flight, each with the closure's next and arr
    hidden,           \* document.hidden
    mounted,          \* the component is mounted (effects' cleanups have not run)
    quiet,            \* environment: [on, owed]; on: from now on the page stays visible and
                      \* the collector accepts every request; owed: ids queued at that moment
    nextId,           \* history: identity of the next payload built
    drainedOk,        \* history: ids of the payloads whose drain POST was handled as delivered
    failDelay,        \* history: delay set by the last failed drain since the last success, 0 if none
    ev,               \* history: how the last callback ended, for the request completions
    metrics,          \* useQuery data (line 53): the last successful poll; loaded = FALSE is null
    queryError,       \* useQuery error (line 42)
    fetching,         \* a GET /ingest/metrics of the query is in flight
    snapshots,        \* localStorage 'ingestMetricsHistorySnapshots' (JSON array)
    chartData,        \* useState of line 230: the window the stats engine reads
    history,          \* useState of line 55: the rate ring buffer (mirrored to sessionStorage)
    now,              \* Date.now() at the last successful poll
    percentiles       \* useState of line 266: the percentile bounds [low, high]

vars == <<stats, lastPushedRef, pushInFlightRef, pushes, queue, corrupt, retryDelayRef,
          timers, timerLive, drains, hidden, mounted, quiet, nextId, drainedOk,
          failDelay, ev, metrics, queryError, fetching, snapshots, chartData, history, now,
          percentiles>>

reporterVars == <<stats, lastPushedRef, pushInFlightRef, pushes>>
drainVars == <<retryDelayRef, timers, timerLive, drains>>
envVars == <<hidden, mounted, quiet>>
deliveryVars == <<reporterVars, drainVars, queue, corrupt, envVars, nextId, drainedOk, failDelay>>
historyVars == <<metrics, queryError, fetching, snapshots, chartData, history, now, percentiles>>
deliveryVarsButReporter == <<drainVars, queue, corrupt, envVars, nextId, drainedOk, failDelay>>

(***************************************************************************)
(* Helpers.                                                                *)
(***************************************************************************)
Range(s) == {s[i] : i \in 1..Len(s)}
Ids(s) == {s[i].id : i \in 1..Len(s)}
Min(a, b) == IF a < b THEN a ELSE b
Max(a, b) == IF a > b THEN a ELSE b

\* Array.prototype.slice(-n): the last n elements, in order.
SliceLast(s, n) == IF Len(s) <= n THEN s ELSE SubSeq(s, Len(s) - n + 1, Len(s))

\* Outcomes of fetch(...).then(r => { if (!r.ok) throw; return r.json() }):
\*   ok        2xx with a JSON body
\*   okBadBody 2xx whose body is not JSON (r.json() rejects)
\*   bad       non-2xx response
\*   netErr    fetch rejects
Responses == {"ok", "okBadBody", "bad", "netErr"}
\* The second .then runs (lines 363, 405) only for a 2xx with a JSON body.
Delivered(r) == r = "ok"

AnomalySets == SUBSET (0..MaxIndex)
NoStats == [ok |-> FALSE, anomalyIdx |-> {}]

\* stats?.anomalyIdx.size, the effect's dependency (line 377); -1 is undefined.
SizeDep(s) == IF s.ok THEN Cardinality(s.anomalyIdx) ELSE -1

\* Responses of GET /ingest/metrics with available = true (lines 17-24).
\* totalAdded stands for the counters the rate effect depends on, retries for
\* those only the snapshot effects depend on (totalFailed and decryptFailures
\* stand in the same dependency lists and are kept at 0).
MetricsValues ==
    [loaded : {TRUE}, totalAdded : 0..MaxCounter, totalFailed : {0},
     retries : 0..MaxCounter, decryptFailures : {0}]
NoMetrics ==
    [loaded |-> FALSE, totalAdded |-> 0, totalFailed |-> 0, retries |-> 0, decryptFailures |-> 0]

\* Values of ev: the completion of a direct POST or of a drain POST, handled
\* as delivered (Ok) or as failed (Fail); a run of flush from a drain timer
\* or from the online event; a tick of the poll interval, the completion of
\* a poll (Ok with available = true, otherwise Fail), a message of the live
\* feed; an edit of the lower or of the upper percentile bound; "other" for
\* every other callback.
Events ==
    {"other", "directOk", "directFail", "drainOk", "drainFail", "timer", "online",
     "tick", "pollOk", "pollFail", "feed", "editLow", "editHigh"}

\* The environment before the moment from which it stays favourable.
NotQuiet == [on |-> FALSE, owed |-> {}]

\* Lines 266-273 with nothing stored under 'ingestPctBounds'.
DefaultPercentiles == [low |-> 10, high |-> 90]

\* The state after construction of everything but the history window, the
\* percentile bounds and the stats derived from them.
InitMonitor ==
    /\ lastPushedRef = 0
    /\ pushInFlightRef = FALSE
    /\ pushes = {}
    /\ queue = <<>>
    /\ corrupt = FALSE
    /\ retryDelayRef = BaseDelay
    /\ timers = 1
    /\ timerLive = TRUE
    /\ drains = EmptyBag
    /\ hidden \in BOOLEAN
    /\ mounted = TRUE
    /\ quiet = NotQuiet
    /\ nextId = 1
    /\ drainedOk = {}
    /\ failDelay = 0
    /\ ev = "other"
    /\ metrics = NoMetrics
    /\ queryError = FALSE
    /\ fetching = TRUE
    /\ snapshots = <<>>
    /\ history = <<>>
    /\ now = 0

Init ==
    /\ InitMonitor
    /\ chartData = <<>>
    /\ percentiles = DefaultPercentiles
    /\ stats = NoStats

(***************************************************************************)
(* AnomalyReporter: the effect of lines 330-377.                           *)
(***************************************************************************)
\* Mutant of EffectRuns: the effect has no dependency list and runs on every render.
EffectRunsEveryRender(old, new) == TRUE

\* The effect runs when its dependency stats?.anomalyIdx.size changed (line 377).
EffectRuns(old, new) == SizeDep(old) # SizeDep(new)

\* The guards of lines 331-334: the effect goes on to arm the debounce timer.
EffectStarts(s, lastPushed, inFlight) ==
    /\ s.ok
    /\ Cardinality(s.anomalyIdx) # 0
    /\ Cardinality(s.anomalyIdx) # lastPushed
    /\ ~inFlight

\* Mutant of BuildPush: the payload leaves out the first anomalous index.
BuildPushPartial(s, id) ==
    [phase |-> "debounce",
     anomalyCount |-> Cardinality(s.anomalyIdx),
     payload |-> [anomalies |-> s.anomalyIdx \ {0}, id |-> id]]

\* Lines 332, 336-352: the payload holds one record for every anomalous index
\* (chartData and stats belong to the same render, so no record is filtered
\* out); anomalyCount is captured by the closure. id is the payload's identity.
BuildPush(s, id) ==
    [phase |-> "debounce",
     anomalyCount |-> Cardinality(s.anomalyIdx),
     payload |-> [anomalies |-> s.anomalyIdx, id |-> id]]

\* A render in which the stats memo yields the anomaly set S, followed by the
\* push effect when its dependency changed.
AnomalyPushEffect(S) ==
    /\ mounted
    /\ nextId <= MaxPayloads
    /\ LET new == [ok |-> TRUE, anomalyIdx |-> S] IN
        /\ stats' = new
        /\ IF EffectRuns(stats, new) /\ EffectStarts(new, lastPushedRef, pushInFlightRef)
           THEN /\ pushInFlightRef' = TRUE
                /\ pushes' = pushes \cup {BuildPush(new, nextId)}
                /\ nextId' = nextId + 1
           ELSE UNCHANGED <<pushInFlightRef, pushes, nextId>>
    /\ ev' = "other"
    /\ UNCHANGED <<lastPushedRef, queue, corrupt, drainVars, envVars, drainedOk, failDelay>>
    /\ UNCHANGED historyVars

\* The debounce timer of line 351 fires: the POST of line 354 is issued.
DebounceFire(p) ==
    /\ p \in pushes
    /\ p.phase = "debounce"
    /\ pushes' = (pushes \ {p}) \cup {[p EXCEPT !.phase = "fetch"]}
    /\ ev' = "other"
    /\ UNCHANGED <<stats, lastPushedRef, pushInFlightRef, queue, corrupt, drainVars,
                   envVars, nextId, drainedOk, failDelay>>
    /\ UNCHANGED historyVars

\* Mutant of Enqueue: no cap is applied.
EnqueueUncapped(q, payload) == Append(q, payload)

\* Mutant of Enqueue: the payload is put at the head (unshift).
EnqueueFront(q, payload) == SliceLast(<<payload>> \o q, QueueCap)

\* Lines 368-370: existing.push(payload); setItem(existing.slice(-200)).
Enqueue(q, payload) == SliceLast(Append(q, payload), QueueCap)

\* Mutant of PushedCount: the baseline is not recorded.
PushedCountStale(p, lastPushed) == lastPushed

\* Line 364.
PushedCount(p, lastPushed) == p.anomalyCount

\* Mutant of ReleaseGuard: the guard is released in .then only.
ReleaseOnSuccessOnly(r) == ~Delivered(r)

\* Line 374: .finally releases the guard.
ReleaseGuard(r) == FALSE

\* The promise chain of lines 359-375 settles with response r. When the
\* stored queue does not parse, the catch of line 371 swallows the error and
\* the payload is not stored.
DirectDone(p, r) ==
    /\ p \in pushes
    /\ p.phase = "fetch"
    /\ r \in Responses
    /\ quiet.on => Delivered(r)
    /\ pushes' = pushes \ {p}
    /\ IF Delivered(r)
       THEN /\ lastPushedRef' = PushedCount(p, lastPushedRef)
            /\ queue' = queue
       ELSE /\ lastPushedRef' = lastPushedRef
            /\ queue' = IF corrupt THEN queue ELSE Enqueue(queue, p.payload)
    /\ pushInFlightRef' = ReleaseGuard(r)
    /\ ev' = IF Delivered(r) THEN "directOk" ELSE "directFail"
    /\ UNCHANGED <<stats, corrupt, drainVars, envVars, nextId, drainedOk, failDelay>>
    /\ UNCHANGED historyVars

(***************************************************************************)
(* DeliveryQueue: the drain effect of lines 380-427.                       *)
(***************************************************************************)
\* Line 410; d * 1.8 is (d * 9) / 5.
Backoff(d, jitter) == Min((d * 9) \div 5 + jitter, MaxDelay)

\* Line 414: the delay set when the stored queue does not parse.
CorruptBackoff(d) == Min((d * 9) \div 5, CorruptMaxDelay)

\* Lines 391 and 407.
ResetDelay == BaseDelay

\* Mutant of schedule: no timer is set.
scheduleNothing(t) == t

\* schedule (lines 418-420) sets one more timer; t is the number pending.
schedule(t) == t + 1

\* Lines 395-396: the request's closure holds next = arr.shift() and the rest
\* of the array it read.
DrainRequest(q) == [next |-> Head(q), arr |-> Tail(q)]

\* Mutant of flush: document.hidden is not looked at.
flushWhenHidden(t, live) ==
    IF corrupt
    THEN /\ retryDelayRef' = CorruptBackoff(retryDelayRef)
         /\ timers' = schedule(t)
         /\ timerLive' = TRUE
         /\ UNCHANGED drains
    ELSE IF queue = <<>>
    THEN /\ retryDelayRef' = ResetDelay
         /\ timers' = schedule(t)
         /\ timerLive' = TRUE
         /\ UNCHANGED drains
    ELSE /\ drains' = drains (+) SetToBag({DrainRequest(queue)})
         /\ timers' = t
         /\ timerLive' = live
         /\ UNCHANGED retryDelayRef

\* flush (lines 383-417) run with t other drain timers pending; live tells
\* whether the timer held by `timer` is among them. schedule() (line 419)
\* adds a timer and stores it in `timer`.
flush(t, live) ==
    IF hidden
    THEN /\ timers' = schedule(t)
         /\ timerLive' = TRUE
         /\ UNCHANGED <<retryDelayRef, drains>>
    ELSE IF corrupt
    THEN /\ retryDelayRef' = CorruptBackoff(retryDelayRef)
         /\ timers' = schedule(t)
         /\ timerLive' = TRUE
         /\ UNCHANGED drains
    ELSE IF queue = <<>>
    THEN /\ retryDelayRef' = ResetDelay
         /\ timers' = schedule(t)
         /\ timerLive' = TRUE
         /\ UNCHANGED drains
    ELSE /\ drains' = drains (+) SetToBag({DrainRequest(queue)})
         /\ timers' = t
         /\ timerLive' = live
         /\ UNCHANGED retryDelayRef

\* A drain timer fires and runs flush. latest: the timer is the one `timer` holds.
TimerFire(latest) ==
    /\ timers > 0
    /\ IF latest THEN timerLive ELSE timers > (IF timerLive THEN 1 ELSE 0)
    /\ flush(timers - 1, timerLive /\ ~latest)
    /\ ev' = "timer"
    /\ UNCHANGED <<reporterVars, queue, corrupt, envVars, nextId, drainedOk, failDelay>>
    /\ UNCHANGED historyVars

\* Mutant of Online: the event leaves the drain to the pending timer.
OnlineWaitsForTimer ==
    /\ mounted
    /\ timers + BagCardinality(drains) < MaxChains
    /\ ev' = "online"
    /\ UNCHANGED <<reporterVars, drainVars, queue, corrupt, envVars, nextId, drainedOk, failDelay>>
    /\ UNCHANGED historyVars

\* The window's online event runs flush directly (line 422).
Online ==
    /\ mounted
    /\ timers + BagCardinality(drains) < MaxChains
    /\ flush(timers, timerLive)
    /\ ev' = "online"
    /\ UNCHANGED <<reporterVars, queue, corrupt, envVars, nextId, drainedOk, failDelay>>
    /\ UNCHANGED historyVars

\* Line 406: the success handler persists the array the request read, less its head.
CommitPop(q, d) == d.arr

\* Mutant of KeepOnFailure: the failure handler removes the head of the stored queue.
DropOnFailure(q, d) == IF q = <<>> THEN q ELSE Tail(q)

\* Lines 409-411: the failure handler does not write the stored queue.
KeepOnFailure(q, d) == q

\* The promise chain of lines 401-412 settles with response r.
DrainDone(d, r, jitter) ==
    /\ BagIn(d, drains)
    /\ r \in Responses
    /\ jitter \in JitterSamples
    /\ quiet.on => Delivered(r)
    /\ drains' = drains (-) SetToBag({d})
    /\ IF Delivered(r)
       THEN /\ queue' = CommitPop(queue, d)
            /\ corrupt' = FALSE
            /\ retryDelayRef' = ResetDelay
            /\ drainedOk' = drainedOk \cup {d.next.id}
            /\ failDelay' = 0
       ELSE /\ queue' = KeepOnFailure(queue, d)
            /\ corrupt' = corrupt
            /\ retryDelayRef' = Backoff(retryDelayRef, jitter)
            /\ drainedOk' = drainedOk
            /\ failDelay' = retryDelayRef'
    /\ timers' = schedule(timers)
    /\ timerLive' = TRUE
    /\ ev' = IF Delivered(r) THEN "drainOk" ELSE "drainFail"
    /\ UNCHANGED <<reporterVars, envVars, nextId>>
    /\ UNCHANGED historyVars

\* visibilitychange: the page is hidden or shown.
VisibilityChange ==
    /\ ~quiet.on
    /\ hidden' = ~hidden
    /\ ev' = "other"
    /\ UNCHANGED <<reporterVars, queue, corrupt, drainVars, mounted, quiet, nextId, drainedOk, failDelay>>
    /\ UNCHANGED historyVars

\* Unmount: the cleanup of lines 423-426 clears the timer held by `timer`
\* and removes the online listener. The debounce timer (line 351) and the
\* requests in flight are not cancelled.
Teardown ==
    /\ mounted
    /\ mounted' = FALSE
    /\ timers' = IF timerLive THEN timers - 1 ELSE timers
    /\ timerLive' = FALSE
    /\ ev' = "other"
    /\ UNCHANGED <<reporterVars, queue, corrupt, retryDelayRef, drains, hidden, quiet, nextId,
                   drainedOk, failDelay>>
    /\ UNCHANGED historyVars

Next ==
    \/ \E S \in AnomalySets : AnomalyPushEffect(S)
    \/ \E p \in pushes : DebounceFire(p)
    \/ \E p \in pushes, r \in Responses : DirectDone(p, r)
    \/ \E latest \in BOOLEAN : TimerFire(latest)
    \/ Online
    \/ \E d \in BagToSet(drains), r \in Responses, j \in JitterSamples : DrainDone(d, r, j)
    \/ VisibilityChange

Spec == Init /\ [][Next]_vars

\* The monitor with its unmount.
NextTeardown ==
    \/ Next
    \/ Teardown

SpecTeardown == Init /\ [][NextTeardown]_vars

\* Something outside the component (another script of the origin, the user)
\* stores under the queue's key a string that JSON.parse rejects.
Corrupt ==
    /\ ~corrupt
    /\ corrupt' = TRUE
    /\ queue' = <<>>
    /\ ev' = "other"
    /\ UNCHANGED <<reporterVars, drainVars, envVars, nextId, drainedOk, failDelay>>
    /\ UNCHANGED historyVars

\* The monitor with a stored queue that may stop parsing.
NextCorrupt ==
    \/ Next
    \/ Corrupt

SpecCorrupt == Init /\ [][NextCorrupt]_vars

\* The moment from which the page stays visible, the collector accepts every
\* request (DirectDone, DrainDone) and, no direct delivery failing, nothing
\* more is enqueued.
Settle ==
    /\ ~quiet.on
    /\ ~hidden
    /\ quiet' = [on |-> TRUE, owed |-> Ids(queue)]
    /\ ev' = "other"
    /\ UNCHANGED <<reporterVars, queue, corrupt, drainVars, hidden, mounted, nextId,
                   drainedOk, failDelay>>
    /\ UNCHANGED historyVars

NextQuiet ==
    \/ Next
    \/ Settle

\* Timers fire and requests complete: the event loop runs every callback
\* that is due.
Fairness ==
    /\ WF_vars(\E latest \in BOOLEAN : TimerFire(latest))
    /\ WF_vars(\E d \in BagToSet(drains), r \in Responses, j \in JitterSamples : DrainDone(d, r, j))
    /\ WF_vars(\E p \in pushes : DebounceFire(p))
    /\ WF_vars(\E p \in pushes, r \in Responses : DirectDone(p, r))

SpecQuiet == Init /\ [][NextQuiet]_vars /\ Fairness

TypeOK ==
    /\ stats \in [ok : BOOLEAN, anomalyIdx : AnomalySets]
    /\ lastPushedRef \in 0..(MaxIndex + 1)
    /\ pushInFlightRef \in BOOLEAN
    /\ timers \in 0..MaxChains
    /\ corrupt \in BOOLEAN
    /\ ev \in Events
    /\ percentiles = DefaultPercentiles
    /\ retryDelayRef \in BaseDelay..MaxDelay
    /\ nextId \in 1..(MaxPayloads + 1)

(***************************************************************************)
(* Claims about the reporter and the delivery queue (checked under Spec).  *)
(***************************************************************************)
\* The direct delivery that completed in this step.
Completed(p) == p \in pushes /\ p \notin pushes' /\ p.phase = "fetch"
\* The drain request that completed in this step.
Settled(d) == BagIn(d, drains) /\ drains' = drains (-) SetToBag({d})
\* A direct delivery is started (its debounce timer armed) in this step.
Armed(p) == p \in pushes' /\ p \notin pushes /\ p.phase = "debounce"

\* C1: an entry leaves the persisted queue only when a POST of that same
\* entry was acknowledged (its drain was handled as delivered), or as one of
\* the oldest entries dropped by an enqueue that exceeds the cap.
C1_LeavesOnlyAckedOrEvicted ==
    [][\A i \in 1..Len(queue) :
          queue[i].id \notin Ids(queue') =>
              \/ queue[i].id \in drainedOk'
              \/ ev' = "directFail" /\ i <= Len(queue) + 1 - QueueCap]_vars

\* C2: a payload whose drain was handled as delivered is removed from the
\* persisted queue by that acknowledgement and is never in it afterwards.
\* (That it is not lost before the acknowledgement is the subject of C1.)
C2_RemovedExactlyOnce ==
    \A id \in drainedOk : id \notin Ids(queue)

\* C3: the persisted queue never holds more than QueueCap entries, and an
\* enqueue keeps the newest QueueCap entries of the queue with the payload
\* appended, in order.
C3_QueueCapped ==
    /\ [](Len(queue) <= QueueCap)
    /\ [][ev' = "directFail" =>
            \E p \in pushes :
                /\ Completed(p)
                /\ LET q == Append(queue, p.payload)
                       n == Min(Len(q), QueueCap)
                   IN queue' = [i \in 1..n |-> q[Len(q) - n + i]]]_vars

\* Witness of C3: an enqueue on a full queue has dropped the oldest entry
\* (no drain was ever delivered, so nothing else has removed entries).
C3_Witness ==
    /\ ev = "directFail"
    /\ Len(queue) = QueueCap
    /\ drainedOk = {}
    /\ Head(queue).id > 1

\* C5: a failed drain never sets a delay lower than the one set by the failed
\* drain before it when no drain was delivered in between, nor one above
\* MaxDelay; a delivered drain sets the delay to BaseDelay.
C5_BackoffMonotone ==
    [][/\ ev' = "drainFail" => (retryDelayRef' >= failDelay /\ retryDelayRef' <= MaxDelay)
       /\ ev' = "drainOk" => retryDelayRef' = BaseDelay]_vars

\* C6: a step that leaves the anomaly count unchanged starts no direct
\* delivery, and no outstanding direct delivery is for a count equal to the
\* last count pushed.
C6_DedupByCount ==
    /\ [][SizeDep(stats') = SizeDep(stats) => ~(\E p \in pushes' : Armed(p))]_vars
    /\ [](\A p \in pushes : p.anomalyCount # lastPushedRef)

\* Witness of C6: after a failed direct delivery the stats were recomputed
\* with another anomaly set of the same count, and no delivery was started.
C6_Witness ==
    /\ pushes = {}
    /\ queue # <<>>
    /\ stats.ok
    /\ Cardinality(stats.anomalyIdx) # lastPushedRef
    /\ \E i \in 1..Len(queue) :
          /\ queue[i].id = nextId - 1
          /\ queue[i].anomalies # stats.anomalyIdx
          /\ Cardinality(queue[i].anomalies) = Cardinality(stats.anomalyIdx)

\* The count changed in this step to a value that differs from the last count
\* pushed, with no direct push in flight.
CountChanged ==
    /\ stats'.ok
    /\ SizeDep(stats') # SizeDep(stats)
    /\ Cardinality(stats'.anomalyIdx) # lastPushedRef
    /\ ~pushInFlightRef

\* A direct delivery of the full current anomaly set is started in this step.
StartsFullPush ==
    \E p \in pushes' : Armed(p) /\ p.payload.anomalies = stats'.anomalyIdx

\* After the debounce wait a started delivery makes one POST of its payload:
\* an armed delivery only ever turns into the POST of the same payload, and a
\* POST only ever comes from its armed delivery.
OneAttempt ==
    /\ \A p \in pushes : p.phase = "debounce" =>
          (p \in pushes' \/ [p EXCEPT !.phase = "fetch"] \in pushes')
    /\ \A p \in pushes' : p.phase = "fetch" =>
          (p \in pushes \/ [p EXCEPT !.phase = "debounce"] \in pushes)

\* C7 as stated: every change of the count to a value that differs from the
\* last count pushed, zero included, starts one direct delivery of the full set.
C7_EveryCountChange ==
    [][(CountChanged => StartsFullPush) /\ OneAttempt]_vars

\* C7 amended: the same for every change to a non-zero count.
C7_NonZeroCountChange ==
    [][((CountChanged /\ stats'.anomalyIdx # {}) => StartsFullPush) /\ OneAttempt]_vars

\* Witness of C7: the POST of a payload with two anomalies is in flight
\* after an earlier count was pushed.
C7_Witness ==
    /\ lastPushedRef = 1
    /\ \E p \in pushes : p.phase = "fetch" /\ Cardinality(p.payload.anomalies) = 2

C9_BaselineOnlyOnDirectSuccess ==
    [][/\ lastPushedRef' # lastPushedRef => ev' = "directOk"
       /\ ev' = "directOk" =>
             \E p \in pushes :
                 /\ Completed(p)
                 /\ lastPushedRef' = Cardinality(p.payload.anomalies)
                 /\ queue' = queue
       /\ ev' \in {"drainOk", "drainFail"} => lastPushedRef' = lastPushedRef]_vars

\* Witness of C9: a direct delivery of two anomalies was acknowledged while
\* the persisted queue held an entry.
C9_Witness ==
    /\ ev = "directOk"
    /\ lastPushedRef = 2
    /\ queue # <<>>

\* C10: at most one direct delivery is outstanding, and the in-flight guard
\* is set exactly while one is (from the arming of the debounce timer to the
\* completion of the request, whatever its outcome).
C10_OneOutstandingPush ==
    /\ Cardinality(pushes) <= 1
    /\ pushInFlightRef <=> pushes # {}

\* Witness of C10: while a direct delivery is outstanding the count changed
\* to a value that would otherwise be pushed.
C10_Witness ==
    /\ pushInFlightRef
    /\ stats.anomalyIdx # {}
    /\ Cardinality(stats.anomalyIdx) # lastPushedRef
    /\ \E p \in pushes : p.anomalyCount # Cardinality(stats.anomalyIdx)

\* The drain request started (its POST issued) in this step.
Started(d) == CopiesIn(d, drains') = CopiesIn(d, drains) + 1

\* C11: the handling of a failed drain request does not write the persisted
\* queue: no entry is removed, added or moved, and the attempted entry, when
\* it is the head, is still the head.
C11_FailedDrainKeepsQueue ==
    [][ev' = "drainFail" =>
          /\ queue' = queue
          /\ \A d \in BagToSet(drains) :
                (Settled(d) /\ queue # <<>> /\ Head(queue) = d.next) =>
                    (queue' # <<>> /\ Head(queue') = d.next)]_vars

\* Witness of C11: a drain of the head of a queue of two entries has failed.
C11_Witness ==
    /\ ev = "drainFail"
    /\ Len(queue) = 2
    /\ drains = EmptyBag
    /\ drainedOk = {}
    /\ retryDelayRef > BaseDelay

\* C12: every drain request started sends the head of the persisted queue;
\* two entries that stay in the queue keep their relative order; and when a
\* drain request is handled as delivered (its entry removed by line 406) no
\* older entry is in the persisted queue.
C12_StrictFifo ==
    [][/\ \A d \in BagToSet(drains') :
             Started(d) => (queue # <<>> /\ d.next = Head(queue))
       /\ \A i, j \in 1..Len(queue) : \A k, l \in 1..Len(queue') :
             (i < j /\ queue'[k] = queue[i] /\ queue'[l] = queue[j]) => k < l
       /\ ev' = "drainOk" =>
             \A d \in BagToSet(drains) :
                 Settled(d) => \A i \in 1..Len(queue) : queue[i].id >= d.next.id]_vars

\* C13: a run of flush while the page is hidden starts no drain request,
\* leaves the persisted queue and the retry delay unchanged, and ends with
\* the timer it has set pending (in place of the timer that fired, or next
\* to the pending ones when the online event ran it).
C13_HiddenFlushSkips ==
    [][(ev' \in {"timer", "online"} /\ hidden) =>
          /\ drains' = drains
          /\ queue' = queue
          /\ corrupt' = corrupt
          /\ retryDelayRef' = retryDelayRef
          /\ timerLive'
          /\ timers' = IF ev' = "timer" THEN timers ELSE timers + 1]_vars

\* Witness of C13: a drain timer has fired on a hidden page with an entry
\* queued and a raised retry delay; nothing is in flight and a timer is pending.
C13_Witness ==
    /\ ev = "timer"
    /\ hidden
    /\ queue # <<>>
    /\ retryDelayRef > BaseDelay
    /\ drains = EmptyBag
    /\ timers = 1

\* C14: the online event on a visible page with entries queued starts a
\* drain request of the head entry in that very step, whatever the retry
\* delay, and leaves the pending timers pending.
C14_OnlineDrainsAtOnce ==
    [][(ev' = "online" /\ ~hidden /\ queue # <<>>) =>
          /\ Started(DrainRequest(queue))
          /\ retryDelayRef' = retryDelayRef
          /\ timers' = timers]_vars

\* Witness of C14: the online event has started the drain of the head entry
\* while a drain timer set with a raised retry delay is still pending.
C14_Witness ==
    /\ ev = "online"
    /\ timers = 1
    /\ timerLive
    /\ retryDelayRef > BaseDelay
    /\ queue # <<>>
    /\ drains = SetToBag({DrainRequest(queue)})

\* C15: while the component is mounted there is a pending drain timer or a
\* drain request in flight, and the completion of a drain request, delivered
\* or not, sets a timer.
C15_AlwaysRescheduled ==
    /\ [](mounted => (timers >= 1 \/ drains # EmptyBag))
    /\ [][ev' \in {"drainOk", "drainFail"} => (timers' = timers + 1 /\ timerLive')]_vars

\* Witness of C15: flush has found a stored queue that does not parse, on a
\* visible page, and a timer is pending.
C15_Witness ==
    /\ ev = "timer"
    /\ corrupt
    /\ ~hidden
    /\ retryDelayRef > BaseDelay
    /\ drains = EmptyBag
    /\ timers >= 1
    /\ timerLive

\* C16 (checked under SpecQuiet): from the moment the page stays visible,
\* the collector accepts every request and nothing more is enqueued, the
\* persisted queue eventually is empty with every entry it held at that
\* moment acknowledged.
C16_EventuallyDrained ==
    [](quiet.on => <>(queue = <<>> /\ quiet.owed \subseteq drainedOk))

\* The part of C16 that leaves the acknowledgements out: the persisted queue
\* eventually is empty.
C16_EventuallyEmpty ==
    [](quiet.on => <>(queue = <<>>))

(***************************************************************************)
(* SnapshotHistory, MetricsPoller and LiveAnomalyFeed.                     *)
(***************************************************************************)
\* Line 67: the success ratio totalAdded / total, kept as <<numerator,
\* denominator>>; 0 when total is 0.
Rate(m) ==
    IF m.totalAdded + m.totalFailed > 0
    THEN <<m.totalAdded, m.totalAdded + m.totalFailed>>
    ELSE <<0, 1>>

\* Lines 69-70: next = [...h, rate]; while (next.length > 60) next.shift().
PushRate(h, rate) == SliceLast(Append(h, rate), RingCap)

\* Dependency lists of the effects (lines 74, 133 and 246); metrics?.x of a
\* null metrics is undefined.
RateDeps(m) == IF m.loaded THEN <<m.totalAdded, m.totalFailed>> ELSE <<>>
SnapshotDeps(m) ==
    IF m.loaded THEN <<m.totalAdded, m.totalFailed, m.retries, m.decryptFailures>> ELSE <<>>

\* Line 129: { ts: Date.now(), ...metrics }.
Snapshot(m, t) ==
    [ts |-> t, totalAdded |-> m.totalAdded, totalFailed |-> m.totalFailed,
     retries |-> m.retries, decryptFailures |-> m.decryptFailures]

\* Mutant of PersistSnapshot: the list is not trimmed.
PersistSnapshotUncapped(arr, snap) == Append(arr, snap)

\* Lines 129-131: arr.push(snap); if (arr.length > 500) arr.splice(0, arr.length - 500).
PersistSnapshot(arr, snap) ==
    LET a == Append(arr, snap)
    IN IF Len(a) > HistoryCap THEN SubSeq(a, Len(a) - HistoryCap + 1, Len(a)) ELSE a

\* Lines 237-244: JSON.parse(raw).slice(-500), each entry with the derived
\* fields successRate and time (functions of the entry, not kept here).
ReloadChart(raw) == SliceLast(raw, HistoryCap)

\* The refetch interval of line 51 elapses: the query issues one request,
\* unless one is in flight.
PollTick ==
    /\ mounted
    /\ ~fetching
    /\ fetching' = TRUE
    /\ ev' = "tick"
    /\ UNCHANGED <<metrics, queryError, snapshots, chartData, history, now, percentiles>>
    /\ UNCHANGED deliveryVars

\* Whether the query client repeats a failed request by itself, before the
\* next tick. The useQuery call of lines 42-53 sets no retry option; the
\* query client's default options are set where the client is created.
OutOfBandRetry == FALSE

\* A poll succeeds with available = true at time t; the render that
\* follows runs the effects whose dependencies changed, in source order: the
\* rate effect (64-74), the persist effect (120-133), the reload effect (233-246).
PollOk(m, t) ==
    /\ mounted
    /\ fetching
    /\ m \in MetricsValues
    /\ t \in (now + 1)..MaxTime
    /\ metrics' = m
    /\ queryError' = FALSE
    /\ fetching' = FALSE
    /\ ev' = "pollOk"
    /\ now' = t
    /\ history' = IF RateDeps(m) # RateDeps(metrics) THEN PushRate(history, Rate(m)) ELSE history
    /\ IF SnapshotDeps(m) # SnapshotDeps(metrics)
       THEN /\ snapshots' = PersistSnapshot(snapshots, Snapshot(m, t))
            /\ chartData' = ReloadChart(snapshots')
       ELSE UNCHANGED <<snapshots, chartData>>
    /\ UNCHANGED percentiles
    /\ UNCHANGED deliveryVars

\* Mutant of PollFail: the failed poll is recorded as a ratio of 0.
PollFailRecordsZero ==
    /\ mounted
    /\ fetching
    /\ queryError' = TRUE
    /\ fetching' = FALSE
    /\ history' = PushRate(history, <<0, 1>>)
    /\ ev' = "pollFail"
    /\ UNCHANGED <<metrics, snapshots, chartData, now, percentiles>>
    /\ UNCHANGED deliveryVars

\* A poll fails (network error, or available = false: line 47 throws);
\* useQuery keeps the last data and sets error.
PollFail ==
    /\ mounted
    /\ fetching
    /\ IF OutOfBandRetry
       THEN UNCHANGED <<queryError, fetching>>
       ELSE queryError' = TRUE /\ fetching' = FALSE
    /\ ev' = "pollFail"
    /\ UNCHANGED <<metrics, snapshots, chartData, history, now, percentiles>>
    /\ UNCHANGED deliveryVars

\* Entries of a live-feed message, after the defaults of lines 443-448.
FeedEntries ==
    [ts : 1..MaxTime, totalAdded : {1}, totalFailed : {1},
     retries : {0}, decryptFailures : {0}]
FeedMessages == UNION {[1..n -> FeedEntries] : n \in 1..MaxFeedLen}

\* Lines 437-454: existingTs is computed once from d; the entries of the
\* message whose ts is not in it are appended; the newest 500 are kept.
MergeFeed(d, msg) ==
    LET existingTs == {d[i].ts : i \in 1..Len(d)}
        add == SelectSeq(msg, LAMBDA a : a.ts \notin existingTs)
    IN SliceLast(d \o add, HistoryCap)

\* An 'anomalies' event of the EventSource (line 433).
FeedMessage(msg) ==
    /\ mounted
    /\ msg \in FeedMessages
    /\ chartData' = MergeFeed(chartData, msg)
    /\ ev' = "feed"
    /\ UNCHANGED <<metrics, queryError, fetching, snapshots, history, now, percentiles>>
    /\ UNCHANGED deliveryVars

NextHistory ==
    \/ \E m \in MetricsValues, t \in 1..MaxTime : PollOk(m, t)
    \/ PollFail
    \/ PollTick
    \/ \E msg \in FeedMessages : FeedMessage(msg)

SpecHistory == Init /\ [][NextHistory]_vars

(***************************************************************************)
(* Claims about the snapshot history (checked under SpecHistory).          *)
(***************************************************************************)
\* s is t with some of its oldest entries removed.
IsSuffix(s, t) == Len(s) <= Len(t) /\ s = SubSeq(t, Len(t) - Len(s) + 1, Len(t))
\* s is the beginning of t.
IsPrefix(s, t) == Len(s) <= Len(t) /\ s = SubSeq(t, 1, Len(s))

\* C4: the persisted list and the in-memory window never hold more than
\* HistoryCap entries. A poll append leaves the newest entries of the old
\* list followed by the new snapshot; a feed merge leaves the newest entries
\* of the old window followed by the merged ones; entries are dropped from
\* the old end only, and only when the cap is reached.
C4_HistoryCapped ==
    /\ [](Len(snapshots) <= HistoryCap /\ Len(chartData) <= HistoryCap)
    /\ [][snapshots' # snapshots =>
            /\ snapshots' # <<>>
            /\ IsSuffix(snapshots', Append(snapshots, snapshots'[Len(snapshots')]))
            /\ Len(snapshots') = Min(Len(snapshots) + 1, HistoryCap)]_vars
    /\ [][(snapshots' = snapshots /\ chartData' # chartData) =>
            \E k \in 0..Len(chartData) :
                /\ IsPrefix(SubSeq(chartData, k + 1, Len(chartData)), chartData')
                /\ k > 0 => Len(chartData') = HistoryCap]_vars

\* Witness of C4: on a full window a feed merge has evicted the oldest
\* snapshot and appended a feed entry.
C4_Witness ==
    /\ Len(snapshots) = HistoryCap
    /\ Len(chartData) = HistoryCap
    /\ \A i \in 1..(HistoryCap - 1) : chartData[i] = snapshots[i + 1]
    /\ chartData[HistoryCap] \notin Range(snapshots)

\* C17: neither the persisted list nor the in-memory window holds two
\* entries with the same timestamp.
C17_NoDuplicateTimestamps ==
    /\ \A i, j \in 1..Len(chartData) : i # j => chartData[i].ts # chartData[j].ts
    /\ \A i, j \in 1..Len(snapshots) : i # j => snapshots[i].ts # snapshots[j].ts

\* C18: every step leaves the entries of the in-memory window in place,
\* unchanged and in order, followed by what the step appends, except for the
\* oldest ones dropped when the window is at the cap.
C18_AppendedEntriesStay ==
    [][\E k \in 0..Len(chartData) :
          /\ IsPrefix(SubSeq(chartData, k + 1, Len(chartData)), chartData')
          /\ k > 0 => Len(chartData') = HistoryCap]_vars

C20_EveryPollAppends ==
    [][ev' = "pollOk" =>
          /\ snapshots' = PersistSnapshot(snapshots, Snapshot(metrics', now'))
          /\ history' = PushRate(history, Rate(metrics'))]_vars

(***************************************************************************)
(* AnomalyStatsEngine (lines 278-326) and the percentile bounds (lines     *)
(* 266-277, 900-928).                                                      *)
(*                                                                         *)
(* Numbers that are not integers are kept exactly, as reduced fractions    *)
(* <<numerator, denominator>>; <<0, 0>> is NaN (and the undefined of an    *)
(* array read out of range, which compares and adds like NaN). The source  *)
(* computes in IEEE doubles: the two agree except where a double rounds,   *)
(* which can move a comparison only when its two sides are equal as reals. *)
(***************************************************************************)
\* Lengths of the windows the stats are computed for: every window of
\* 1 .. MaxWindow snapshots with counters in 0 .. MaxCounter, and the
\* windows of SpikeWindow snapshots with a constant totalAdded.
MaxWindow == 4
SpikeWindow == 7

\* Values typed into the band inputs (Number(e.target.value), lines 907, 927).
InputValues == {-1, 0, 50, 100, 101}

RECURSIVE GCD(_, _)
GCD(a, b) == IF b = 0 THEN a ELSE GCD(b, a % b)

\* The number n / d, for n >= 0 and d > 0.
Rat(n, d) == LET g == GCD(n, d) IN <<n \div g, d \div g>>
NaN == <<0, 0>>
IsNaN(x) == x[2] = 0
\* x < y; false when either is NaN.
Less(x, y) == ~IsNaN(x) /\ ~IsNaN(y) /\ x[1] * y[2] < y[1] * x[2]

\* Mutant of SuccessRate: a snapshot without attempts counts as full success.
SuccessRateFullWhenIdle(d) ==
    IF d.totalAdded + d.totalFailed > 0
    THEN Rat(100 * d.totalAdded, d.totalAdded + d.totalFailed)
    ELSE Rat(100, 1)

\* Lines 280-282: the success rate of a snapshot, in percent.
SuccessRate(d) ==
    IF d.totalAdded + d.totalFailed > 0
    THEN Rat(100 * d.totalAdded, d.totalAdded + d.totalFailed)
    ELSE Rat(0, 1)

successArr(d) == [i \in 1..Len(d) |-> SuccessRate(d[i])]

\* Line 285: [...arr].sort((a, b) => a - b).
RECURSIVE Insert(_, _)
Insert(s, x) ==
    IF s = <<>> THEN <<x>>
    ELSE IF Less(x, Head(s)) THEN <<x>> \o s
    ELSE <<Head(s)>> \o Insert(Tail(s), x)

RECURSIVE SortAscending(_)
SortAscending(arr) ==
    IF arr = <<>> THEN <<>>
    ELSE Insert(SortAscending(SubSeq(arr, 1, Len(arr) - 1)), arr[Len(arr)])

\* sorted[k] of a JavaScript array (k counts from 0): undefined out of range.
At(sorted, k) == IF k \in 0..(Len(sorted) - 1) THEN sorted[k + 1] ELSE NaN

\* Line 291: sorted[lo] * (1 - t) + sorted[hi] * t with t = r / 100.
Interpolate(a, b, r) ==
    IF IsNaN(a) \/ IsNaN(b) THEN NaN
    ELSE Rat(a[1] * (100 - r) * b[2] + b[1] * r * a[2], 100 * a[2] * b[2])

\* Mutant of pct: the array is not sorted.
pctUnsorted(arr, p) ==
    IF arr = <<>> THEN Rat(0, 1)
    ELSE LET n100 == p * (Len(arr) - 1)
             lo == n100 \div 100
             r == n100 % 100
         IN IF r = 0 THEN At(arr, lo) ELSE Interpolate(At(arr, lo), At(arr, lo + 1), r)

\* Mutant of pct: the lower rank is taken, without interpolation.
pctLowerRank(arr, p) ==
    IF arr = <<>> THEN Rat(0, 1)
    ELSE At(SortAscending(arr), (p * (Len(arr) - 1)) \div 100)

\* pct (lines 283-292) for an integer p: idx = (p / 100) * (n - 1) is
\* n100 / 100, lo = floor(idx), hi = ceil(idx), t = idx - lo.
pct(arr, p) ==
    IF arr = <<>> THEN Rat(0, 1)
    ELSE LET sorted == SortAscending(arr)
             n100 == p * (Len(arr) - 1)
             lo == n100 \div 100
             r == n100 % 100
         IN IF r = 0 THEN At(sorted, lo) ELSE Interpolate(At(sorted, lo), At(sorted, lo + 1), r)

\* Mutant of DeltaFailed: a decrease of the counter gives a negative delta.
DeltaSigned(d, i) == d[i + 1].totalFailed - d[i].totalFailed

\* Lines 298 and 318: the delta of totalFailed at index i (from 0) >= 1.
DeltaFailed(d, i) == Max(0, d[i + 1].totalFailed - d[i].totalFailed)

\* Lines 295-301.
deltasFailed(d) == [k \in 1..(Len(d) - 1) |-> DeltaFailed(d, k)]

RECURSIVE SumSeq(_)
SumSeq(s) == IF s = <<>> THEN 0 ELSE Head(s) + SumSeq(Tail(s))

\* Mutant of AboveSpikeThreshold: the threshold is mean + 1 * std.
AboveOneStd(x, deltas) ==
    LET n == IF Len(deltas) = 0 THEN 1 ELSE Len(deltas)
        S == SumSeq(deltas)
        sq == SumSeq([k \in 1..Len(deltas) |-> (n * deltas[k] - S) * (n * deltas[k] - S)])
    IN /\ n * x - S > 0
       /\ (n * x - S) * (n * x - S) * n > sq

\* Lines 302-305 and 319: x > mean + 2 * std, where mean = S / n and
\* variance = sum((b - mean)^2) / n = sq / n^3 with sq = sum((n * b - S)^2),
\* n = deltas.length || 1. As std >= 0, x - mean > 2 * std holds exactly
\* when x - mean > 0 and (x - mean)^2 > 4 * variance, that is
\* (n * x - S)^2 / n^2 > 4 * sq / n^3.
AboveSpikeThreshold(x, deltas) ==
    LET n == IF Len(deltas) = 0 THEN 1 ELSE Len(deltas)
        S == SumSeq(deltas)
        sq == SumSeq([k \in 1..Len(deltas) |-> (n * deltas[k] - S) * (n * deltas[k] - S)])
    IN /\ n * x - S > 0
       /\ (n * x - S) * (n * x - S) * n > 4 * sq

\* The reasons pushed for index i (from 0), in order (lines 310-323).
Reason(kind, delta) == [kind |-> kind, delta |-> delta]
ReasonsAt(d, p10, p90, i) ==
    LET rate == SuccessRate(d[i + 1])
        band == IF Less(rate, p10) THEN <<Reason("lowSuccess", 0)>>
                ELSE IF Less(p90, rate) THEN <<Reason("highSuccess", 0)>>
                ELSE <<>>
        spike == IF i > 0 /\ AboveSpikeThreshold(DeltaFailed(d, i), deltasFailed(d))
                         /\ DeltaFailed(d, i) > 0
                 THEN <<Reason("failureSpike", DeltaFailed(d, i))>>
                 ELSE <<>>
    IN band \o spike

\* The stats memo (lines 278-326): null for an empty window.
ComputeStats(d, pc) ==
    IF d = <<>> THEN NoStats
    ELSE LET p10 == pct(successArr(d), pc.low)
             p90 == pct(successArr(d), pc.high)
             reasons == [i \in 0..(Len(d) - 1) |-> ReasonsAt(d, p10, p90, i)]
         IN [ok |-> TRUE,
             p10 |-> p10,
             p90 |-> p90,
             anomalyIdx |-> {i \in 0..(Len(d) - 1) : reasons[i] # <<>>},
             reasons |-> reasons,
             count |-> Len(d)]

\* Line 907: the lower bound is edited to v.
EditLow(v) ==
    /\ mounted
    /\ v \in InputValues
    /\ percentiles' = [percentiles EXCEPT !.low = Min(v, percentiles.high - 1)]
    /\ stats' = ComputeStats(chartData, percentiles')
    /\ ev' = "editLow"
    /\ UNCHANGED <<lastPushedRef, pushInFlightRef, pushes, deliveryVarsButReporter>>
    /\ UNCHANGED <<metrics, queryError, fetching, snapshots, chartData, history, now>>

\* Line 927: the upper bound is edited to v.
EditHigh(v) ==
    /\ mounted
    /\ v \in InputValues
    /\ percentiles' = [percentiles EXCEPT !.high = Max(v, percentiles.low + 1)]
    /\ stats' = ComputeStats(chartData, percentiles')
    /\ ev' = "editHigh"
    /\ UNCHANGED <<lastPushedRef, pushInFlightRef, pushes, deliveryVarsButReporter>>
    /\ UNCHANGED <<metrics, queryError, fetching, snapshots, chartData, history, now>>

NextStats ==
    \/ \E v \in InputValues : EditLow(v)
    \/ \E v \in InputValues : EditHigh(v)

\* A snapshot of the window at position i with the given counters.
Sample(i, added, failed) ==
    [ts |-> i, totalAdded |-> added, totalFailed |-> failed, retries |-> 0, decryptFailures |-> 0]

\* The windows of the two worked examples of the spec: totalFailed =
\* [0, 0, 0, 50, 0], and successRate = [90, 91, 89, 10, 92].
SpikeExample == [i \in 1..5 |-> Sample(i, 50, <<0, 0, 0, 50, 0>>[i])]
BandExample ==
    [i \in 1..5 |-> Sample(i, <<90, 91, 89, 10, 92>>[i], <<10, 9, 11, 90, 8>>[i])]

Windows ==
    UNION {
        {[i \in 1..n |-> Sample(i, a[i], f[i])] :
            a \in [1..n -> 0..MaxCounter], f \in [1..n -> 0..MaxCounter]} : n \in 1..MaxWindow}
    \cup {[i \in 1..SpikeWindow |-> Sample(i, 1, f[i])] : f \in [1..SpikeWindow -> 0..MaxCounter]}
    \cup {SpikeExample, BandExample}

\* Bounds found under 'ingestPctBounds' (line 270 takes what is stored as it
\* is): the defaults, the extremes, and a pair stored with low above high.
StoredPercentiles ==
    {DefaultPercentiles, [low |-> 0, high |-> 100], [low |-> 90, high |-> 10]}

\* The first render over a window, with the bounds taken from B.
InitStats(B) ==
    /\ InitMonitor
    /\ chartData \in Windows
    /\ percentiles \in B
    /\ stats = ComputeStats(chartData, percentiles)

\* The stats engine over the windows, with the stored bounds and the edits.
SpecStats == InitStats(StoredPercentiles) /\ [][NextStats]_vars

\* The same from the default bounds.
SpecBands == InitStats({DefaultPercentiles}) /\ [][NextStats]_vars

(***************************************************************************)
(* Claims about the stats engine (checked under SpecStats) and about the   *)
(* percentile bounds (C27, under SpecBands).                               *)
(***************************************************************************)
TotalFailedOf(d) == [i \in 1..Len(d) |-> d[i].totalFailed]
\* The stats hold a reason of the given kind for index i (from 0).
HasReason(i, kind) ==
    \E k \in 1..Len(stats.reasons[i]) : stats.reasons[i][k].kind = kind

\* C21 as stated: for totalFailed = [0, 0, 0, 50, 0] the deltas are
\* [0, 0, 50, 0] and index 3 carries failureSpike(50).
C21_SpikeExampleTagged ==
    TotalFailedOf(chartData) = <<0, 0, 0, 50, 0>> =>
        /\ deltasFailed(chartData) = <<0, 0, 50, 0>>
        /\ Reason("failureSpike", 50) \in Range(stats.reasons[3])

\* C21 amended: for totalFailed = [0, 0, 0, 50, 0] the deltas are
\* [0, 0, 50, 0]; their mean is 12.5 and their variance 468.75, so that
\* (50 - 12.5)^2 = 1406.25 is below 4 * 468.75 = 1875: the delta 50 is not
\* above mean + 2 * std, and index 3 carries no failureSpike (nor does any
\* other index).
C21_SpikeExampleBelowThreshold ==
    TotalFailedOf(chartData) = <<0, 0, 0, 50, 0>> =>
        /\ stats.ok
        /\ deltasFailed(chartData) = <<0, 0, 50, 0>>
        /\ \A i \in 0..4 : ~HasReason(i, "failureSpike")

\* Witness of C21: the stats were recomputed over the example window.
C21_Witness ==
    /\ chartData = SpikeExample
    /\ ev = "editHigh"
    /\ stats.ok
    /\ stats.count = 5

\* C22: for successRate = [90, 91, 89, 10, 92] and the bounds 10 / 90 the
\* lower percentile is above 10 and index 3 carries lowSuccess; and for every
\* window and bounds an index carries lowSuccess exactly when its success
\* rate is below the lower percentile.
C22_LowSuccessBelowPLow ==
    /\ (/\ successArr(chartData) = <<Rat(90, 1), Rat(91, 1), Rat(89, 1), Rat(10, 1), Rat(92, 1)>>
        /\ percentiles.low = 10) =>
           /\ Less(Rat(10, 1), stats.p10)
           /\ stats.p10 = Rat(416, 10)
           /\ HasReason(3, "lowSuccess")
    /\ stats.ok =>
           \A i \in 0..(Len(chartData) - 1) :
               HasReason(i, "lowSuccess") <=>
                   LET a == chartData[i + 1].totalAdded
                       f == chartData[i + 1].totalFailed
                   IN IF a + f > 0
                      THEN Less(Rat(100 * a, a + f), stats.p10)
                      ELSE Less(Rat(0, 1), stats.p10)

\* Witness of C22: the example window after a recomputation with the lower
\* bound 10; index 3 carries lowSuccess and index 0 does not.
C22_Witness ==
    /\ chartData = BandExample
    /\ ev = "editHigh"
    /\ percentiles.low = 10
    /\ HasReason(3, "lowSuccess")
    /\ ~HasReason(0, "lowSuccess")

\* C23: an index carries highSuccess exactly when its success rate is above
\* the upper percentile, whether or not it carries lowSuccess.
C23_HighSuccessIndependent ==
    stats.ok =>
        \A i \in 0..(Len(chartData) - 1) :
            HasReason(i, "highSuccess") <=> Less(stats.p90, SuccessRate(chartData[i + 1]))

\* The k-th smallest element of a non-empty array (k from 1).
Kth(arr, k) ==
    CHOOSE x \in Range(arr) :
        /\ Cardinality({i \in 1..Len(arr) : Less(arr[i], x)}) < k
        /\ Cardinality({i \in 1..Len(arr) : ~Less(x, arr[i])}) >= k
\* The standard median of a non-empty array.
MedianOf(arr) ==
    LET n == Len(arr)
    IN IF n % 2 = 1 THEN Kth(arr, (n + 1) \div 2)
       ELSE LET a == Kth(arr, n \div 2)
                b == Kth(arr, n \div 2 + 1)
            IN Rat(a[1] * b[2] + b[1] * a[2], 2 * a[2] * b[2])
\* Where a bound is p, the percentile computed for it is v.
PercentileIs(p, v) ==
    /\ percentiles.low = p => stats.p10 = v
    /\ percentiles.high = p => stats.p90 = v

\* C24: over every non-empty window the percentile 0 is the minimum of the
\* success rates, the percentile 100 their maximum and the percentile 50
\* their median.
C24_PercentileExtremesAndMedian ==
    stats.ok =>
        LET arr == successArr(chartData)
        IN /\ PercentileIs(0, Kth(arr, 1))
           /\ PercentileIs(100, Kth(arr, Len(arr)))
           /\ PercentileIs(50, MedianOf(arr))

\* Witness of C24: the bounds are 0 / 50 over a window of four snapshots
\* whose median lies strictly between the two middle rates and above the
\* minimum.
C24_Witness ==
    /\ stats.ok
    /\ percentiles = [low |-> 0, high |-> 50]
    /\ Len(chartData) = 4
    /\ Less(Kth(successArr(chartData), 2), stats.p90)
    /\ Less(stats.p90, Kth(successArr(chartData), 3))
    /\ Less(stats.p10, stats.p90)

\* C27 (checked under SpecBands): the bounds satisfy 0 <= low < high <= 100.
C27_BoundsInRange ==
    /\ 0 <= percentiles.low
    /\ percentiles.low < percentiles.high
    /\ percentiles.high <= 100

\* C28: the success rate of every snapshot of the window is a number in
\* [0, 100], and 0 for a snapshot with totalAdded + totalFailed = 0; so is
\* every percentile of the success rates for a bound in 0 .. 100.
C28_SuccessRateInRange ==
    /\ \A i \in 1..Len(chartData) :
          LET r == SuccessRate(chartData[i])
          IN /\ ~IsNaN(r)
             /\ ~Less(r, Rat(0, 1))
             /\ ~Less(Rat(100, 1), r)
             /\ chartData[i].totalAdded + chartData[i].totalFailed = 0 => r = Rat(0, 1)
    /\ (stats.ok /\ percentiles.low \in 0..100) =>
          (~IsNaN(stats.p10) /\ ~Less(stats.p10, Rat(0, 1)) /\ ~Less(Rat(100, 1), stats.p10))

\* Witness of C28: the stats were recomputed over a window with a snapshot
\* without attempts, one with failures only and one with both outcomes.
C28_Witness ==
    /\ stats.ok
    /\ ev = "editLow"
    /\ \E i, j, k \in 1..Len(chartData) :
          /\ chartData[i].totalAdded + chartData[i].totalFailed = 0
          /\ chartData[j].totalAdded = 0 /\ chartData[j].totalFailed > 0
          /\ chartData[k].totalAdded > 0 /\ chartData[k].totalFailed > 0

\* The claim's test for a spike at index i >= 1 of the window with the
\* totalFailed sequence tf: d = max(0, tf[i] - tf[i-1]) > 0 and d above
\* mean + 2 * population std of the m deltas, that is m * d - S > 0 and
\* (m * d - S)^2 > 4 * (m * Q - S^2), S the sum and Q the sum of squares.
SpikeAt(tf, i) ==
    LET m == Len(tf) - 1
        dl == [k \in 1..m |-> IF tf[k + 1] > tf[k] THEN tf[k + 1] - tf[k] ELSE 0]
        S == SumSeq(dl)
        Q == SumSeq([k \in 1..m |-> dl[k] * dl[k]])
        d == dl[i]
    IN /\ d > 0
       /\ m * d - S > 0
       /\ (m * d - S) * (m * d - S) > 4 * (m * Q - S * S)

\* C29: index i carries failureSpike(d) exactly when i >= 1 and the claim's
\* test holds for d, and it carries no other failureSpike; index 0 never
\* carries one, nor does an index where totalFailed decreased, nor any index
\* of a window of fewer than 3 snapshots.
C29_FailureSpikeExactly ==
    stats.ok =>
        LET tf == TotalFailedOf(chartData)
        IN \A i \in 0..(Len(tf) - 1) :
              LET spikes == {r \in Range(stats.reasons[i]) : r.kind = "failureSpike"}
              IN /\ spikes = IF i >= 1 /\ SpikeAt(tf, i)
                             THEN {Reason("failureSpike", tf[i + 1] - tf[i])}
                             ELSE {}
                 /\ i = 0 => spikes = {}
                 /\ (i >= 1 /\ tf[i + 1] < tf[i]) => spikes = {}
                 /\ Len(tf) < 3 => spikes = {}

\* Witness of C29: an index carries failureSpike in a window where
\* totalFailed also decreased once.
C29_Witness ==
    /\ stats.ok
    /\ ev = "editLow"
    /\ \E i \in 0..(Len(chartData) - 1) : HasReason(i, "failureSpike")
    /\ \E k \in 1..(Len(chartData) - 1) : chartData[k + 1].totalFailed < chartData[k].totalFailed

(***************************************************************************)
(* Claims about teardown (C25, under SpecTeardown), the stored queue that  *)
(* does not parse (C26, under SpecCorrupt) and the drain chains (C30,      *)
(* under Spec).                                                            *)
(***************************************************************************)
\* C25: in every state after the teardown of the monitor no drain timer is
\* pending (none was left pending, none was set since) and no debounce timer
\* of the reporter is pending.
C25_NoTimerAfterTeardown ==
    ~mounted =>
        /\ timers = 0
        /\ \A p \in pushes : p.phase # "debounce"

\* C26: with a stored queue that does not parse, a failed direct delivery
\* leaves the store holding its payload (as the only entry of a queue that
\* parses again), and a run of flush on a visible page does what it does on
\* an empty queue: it resets the retry delay and sets the next timer.
C26_UnparsableStoreAsEmpty ==
    [][corrupt =>
          /\ ev' = "directFail" =>
                \E p \in pushes :
                    /\ Completed(p)
                    /\ ~corrupt'
                    /\ queue' = <<p.payload>>
          /\ (ev' \in {"timer", "online"} /\ ~hidden) =>
                /\ retryDelayRef' = ResetDelay
                /\ drains' = drains
                /\ timerLive']_vars

\* C30: at most one drain request is in flight and at most one drain timer
\* is pending, and no two requests in flight send the same entry.
C30_SingleDrainChain ==
    /\ BagCardinality(drains) <= 1
    /\ timers <= 1
    /\ \A d \in BagToSet(drains) :
          /\ CopiesIn(d, drains) = 1
          /\ \A e \in BagToSet(drains) : e.next = d.next => e = d

\* C32 (checked under SpecCorrupt): the retry delay is always in
\* BaseDelay .. MaxDelay, and a step lowers it only by setting it to
\* BaseDelay, when a drain request is handled as delivered or when flush finds
\* the stored queue empty.
C32_DelayLoweredOnlyByReset ==
    /\ [](retryDelayRef \in BaseDelay..MaxDelay)
    /\ [][retryDelayRef' < retryDelayRef =>
             /\ retryDelayRef' = BaseDelay
             /\ \/ ev' = "drainOk"
                \/ ev' \in {"timer", "online"} /\ ~hidden /\ ~corrupt /\ queue = <<>>]_vars

(***************************************************************************)
(* The reporter and the delivery queue on an event loop that runs every    *)
(* callback that is due (C31).                                             *)
(***************************************************************************)
SpecLive == Init /\ [][Next]_vars /\ Fairness

\* The number of anomalous indices of the last render.
AnomalyCount == Cardinality(stats.anomalyIdx)

\* C31 (checked under SpecLive): when, with a direct delivery outstanding
\* that was built for another count, the anomaly count is c > 0 and stays c
\* from then on, a direct delivery built for the count c is eventually
\* started (whose payload is then sent, and enqueued when the POST fails).
C31_ChangeDuringPushReported ==
    \A c \in 1..(MaxIndex + 1) :
        []((/\ pushes # {}
            /\ \A p \in pushes : p.anomalyCount # c
            /\ AnomalyCount = c
            /\ [](AnomalyCount = c))
           => <>(\E p \in pushes : p.anomalyCount = c))

====
